---- MODULE Spec2Model ----
(***************************************************************************)
(* tx-fee-analyzer (src/src/main.rs): one run of `main`, which calls       *)
(* calculate_fees (signature pagination, window filter, detail fetch in    *)
(* batches, aggregation, sort) and then writes the CSV and the hourly time *)
(* series.  The RPC Gateway, the wall clock, the build profile and the     *)
(* file system are the environment.                                        *)
(*                                                                         *)
(* Option<T> is a sequence: <<>> is None, <<v>> is Some(v).                *)
(* DateTime<Utc> is [secs, nanos] as chrono keeps it.                      *)
(* u64 is four 16-bit limbs, least significant first.                      *)
(***************************************************************************)
EXTENDS Integers, Sequences, FiniteSets, TLC

VARIABLES
    history,              \* Gateway: the account's entries, newest first
    overflow_checks,      \* build profile: TRUE panics on u64 overflow, FALSE wraps
    hours_to_look_back,   \* main.rs:41
    current_time,         \* main.rs:55
    start_time,           \* main.rs:56
    pc,                   \* where the run is
    error,                \* the Err calculate_fees returned ("" while none)
    before,               \* main.rs:62
    all_signatures,       \* main.rs:61
    filtered_signatures,  \* main.rs:118
    next_sig,             \* position in filtered_signatures of the next fetch
    total_fees,           \* main.rs:135
    processed_tx_count,   \* main.rs:136
    successful_tx_count,  \* main.rs:137
    failed_tx_count,      \* main.rs:138
    transactions_data,    \* main.rs:139
    analysis,             \* Option<FeeAnalysis> returned to main
    csv_file,             \* Option: rows save_transaction_data wrote
    time_series,          \* Option: hourly_data analyze_time_series_data wrote
    listing,              \* log of the listing calls (cursor sent, page got)
    responses,            \* log of the Gateway's answer to each detail fetch
    pacing                \* sleeps since the last Gateway request

vars == <<history, overflow_checks, hours_to_look_back, current_time, start_time,
          pc, error, before, all_signatures, filtered_signatures, next_sig,
          total_fees, processed_tx_count, successful_tx_count, failed_tx_count,
          transactions_data, analysis, csv_file, time_series, listing,
          responses, pacing>>

----------------------------------------------------------------------------
(* Bounds of the model *)

\* longest account history the Gateway holds
MaxHist == 3
\* most entries the Gateway puts in one page (at most `limit`)
MaxPageLen == 3
\* longest account history of the batching scenarios
BatchHist == 7
\* longest account history of the time-series scenarios
SeriesHist == 3
\* longest account history of the fee scenarios
FeeHist == 3

(* Program constants *)

limit == 100
batch_size == 5
SignatureDelayMs == 100
TransactionDelayMs == 100
BatchDelayMs == 500
SecsPerHour == 3600

----------------------------------------------------------------------------
(* Option *)

None == <<>>
Some(v) == <<v>>
IsSome(o) == Len(o) = 1
Unwrap(o) == o[1]

Min(a, b) == IF a <= b THEN a ELSE b

----------------------------------------------------------------------------
(* chrono::DateTime<Utc> *)

\* DateTime::from_timestamp(secs, 0)
FromTimestamp(s) == [secs |-> s, nanos |-> 0]

\* Ord for DateTime: a < b
DtLt(a, b) == a.secs < b.secs \/ (a.secs = b.secs /\ a.nanos < b.nanos)
DtLe(a, b) == ~DtLt(b, a)
DtGe(a, b) == ~DtLt(a, b)

\* dt + Duration::hours(h)  (h may be negative: dt - Duration::hours(-h))
AddHours(dt, h) == [secs |-> dt.secs + h * SecsPerHour, nanos |-> dt.nanos]

\* .with_minute(0).with_second(0).with_nanosecond(0)
TruncateToHour(dt) == [secs |-> dt.secs - (dt.secs % SecsPerHour), nanos |-> 0]

----------------------------------------------------------------------------
(* u64 *)

\* one limb of a u64: 16 bits
Limb == 2 ^ 16
U64(l1, l2, l3, l4) == <<l1, l2, l3, l4>>
U64Zero == U64(0, 0, 0, 0)
U64Max == U64(Limb - 1, Limb - 1, Limb - 1, Limb - 1)
U64Small(n) == U64(n, 0, 0, 0)

\* the five limbs of the mathematical sum a + b (the fifth is the carry out)
AddLimbs(a, b) ==
    LET s1 == a[1] + b[1]
        s2 == a[2] + b[2] + s1 \div Limb
        s3 == a[3] + b[3] + s2 \div Limb
        s4 == a[4] + b[4] + s3 \div Limb
    IN  <<s1 % Limb, s2 % Limb, s3 % Limb, s4 % Limb, s4 \div Limb>>

\* a + b overflows u64
Overflows(a, b) == AddLimbs(a, b)[5] > 0

\* a + b modulo 2^64
WrappingAdd(a, b) == SubSeq(AddLimbs(a, b), 1, 4)

----------------------------------------------------------------------------
(* The RPC Gateway *)

\* an entry of get_signatures_for_address_with_config's answer
\* (RpcConfirmedTransactionStatusWithSignature): signature names the entry,
\* valid says whether Signature::from_str accepts the string
SignatureRef(id, bt, ok) == [signature |-> id, block_time |-> bt, valid |-> ok]

\* the entries strictly older than the cursor (`before` is exclusive)
OlderThan(h, cursor) ==
    IF cursor = None THEN h
    ELSE LET pos == CHOOSE i \in 1..Len(h) : h[i].signature = Unwrap(cursor)
         IN  SubSeq(h, pos + 1, Len(h))

\* what one listing call may answer: a failure, or a page of the newest entries
\* older than the cursor, at most `limit` of them
ListResponses(h, cursor) ==
    LET older == OlderThan(h, cursor)
        most  == Min(Min(limit, MaxPageLen), Len(older))
    IN  {[ok |-> FALSE, page |-> <<>>]}
        \cup {[ok |-> TRUE, page |-> SubSeq(older, 1, k)] : k \in 0..most}

\* what get_transaction may answer: Err, or Ok(tx) with meta absent, or Ok(tx)
\* with meta.fee, meta.status.is_ok() and tx.block_time
TxErr == [ok |-> FALSE, meta |-> FALSE, fee |-> U64Zero, status |-> FALSE,
          block_time |-> None]
TxNoMeta == [ok |-> TRUE, meta |-> FALSE, fee |-> U64Zero, status |-> FALSE,
             block_time |-> None]
TxOk(f, st, bt) == [ok |-> TRUE, meta |-> TRUE, fee |-> f, status |-> st,
                    block_time |-> bt]

----------------------------------------------------------------------------
(* The inputs the model draws from *)

\* Utc::now() at main.rs:55
NowSecs == 3 * SecsPerHour + 1800
Nows == {[secs |-> NowSecs, nanos |-> 0], [secs |-> NowSecs, nanos |-> 500000000]}
\* HOURS_TO_LOOK_BACK
Lookbacks == {-1, 0, 1}
\* block times of listed entries: before the window, at `from` (one hour back,
\* whole second), at `to`, after `to`; or absent
ListedBlockTimes ==
    {None, Some(1800), Some(NowSecs - SecsPerHour), Some(NowSecs),
     Some(NowSecs + SecsPerHour)}
\* block times of fetched transactions: absent (epoch), in the window, in the
\* hour after `to`, two hours after `to`'s hour
FetchedBlockTimes ==
    {None, Some(NowSecs), Some(NowSecs + SecsPerHour), Some(5 * SecsPerHour)}
Fees == {U64Small(5000), U64Max}
\* every fee and status, the block time the listing gave
TxResponses == {TxErr, TxNoMeta}
               \cup {TxOk(f, st, Some(NowSecs)) : f \in Fees, st \in BOOLEAN}
\* one fee, every status and block time
SeriesResponses == {TxErr}
                   \cup {TxOk(U64Small(5000), st, bt) : st \in BOOLEAN, bt \in FetchedBlockTimes}
\* failure, no meta, or one transaction
BatchResponses == {TxErr, TxNoMeta, TxOk(U64Small(5000), TRUE, Some(NowSecs))}

----------------------------------------------------------------------------
(* Pacing: thread::sleep and the Gateway requests *)

NoPacing == [since |-> 0, gap |-> 0, prev |-> "", last |-> ""]
\* a Gateway request of `kind` is issued
Request(p, kind) == [since |-> 0, gap |-> p.since, prev |-> p.last, last |-> kind]
\* thread::sleep(StdDuration::from_millis(ms))
Sleep(p, ms) == [p EXCEPT !.since = @ + ms]

----------------------------------------------------------------------------
(* Signature Collector: main.rs:61-127 *)

\* main.rs:90-96: the entry has a block time at or after start_time
AtOrAfterStart(sig, start) ==
    /\ IsSome(sig.block_time)
    /\ DtGe(FromTimestamp(Unwrap(sig.block_time)), start)

\* (mutant) the boundary page cut at its first entry that is not kept
RECURSIVE BoundaryPagePrefix(_, _)
BoundaryPagePrefix(page, start) ==
    IF page = <<>> \/ ~AtOrAfterStart(page[1], start) THEN <<>>
    ELSE <<page[1]>> \o BoundaryPagePrefix(Tail(page), start)

\* main.rs:89-98: the boundary page, entry by entry
BoundaryPage(page, start) ==
    LET Keep(sig) == AtOrAfterStart(sig, start) IN SelectSeq(page, Keep)

\* main.rs:82-87: the page's last entry has a block time before start_time
OldestBeforeStart(page, start) ==
    /\ IsSome(page[Len(page)].block_time)
    /\ DtLt(FromTimestamp(Unwrap(page[Len(page)].block_time)), start)

\* main.rs:120-126: the filter's predicate
InWindow(sig, start, now) ==
    /\ IsSome(sig.block_time)
    /\ DtGe(FromTimestamp(Unwrap(sig.block_time)), start)
    /\ DtLe(FromTimestamp(Unwrap(sig.block_time)), now)

\* main.rs:118-127
FilterSignatures(sigs, start, now) ==
    LET Keep(sig) == InWindow(sig, start, now) IN SelectSeq(sigs, Keep)

\* the listing log after a call that sent `cursor` and got `page`
Listed(l, cursor, page) ==
    [calls |-> l.calls + 1, fetched |-> l.fetched \o page, cursor |-> cursor,
     page |-> page, failed |-> FALSE,
     prev_last |-> IF l.calls > 0 /\ l.page # <<>>
                   THEN Some(l.page[Len(l.page)].signature) ELSE None]

\* the listing log after a call that sent `cursor` and failed
ListFailed(l, cursor) == [Listed(l, cursor, <<>>) EXCEPT !.failed = TRUE]

\* (mutant) the cursor set to the page's newest entry
NextCursorNewest(page) == Some(page[1].signature)

\* main.rs:107-109: the cursor for the next call
NextCursor(page) == Some(page[Len(page)].signature)

FetcherUnchanged ==
    UNCHANGED <<next_sig, total_fees, processed_tx_count, successful_tx_count,
                failed_tx_count, transactions_data, responses>>
ReportUnchanged == UNCHANGED <<analysis, csv_file, time_series>>
InputsUnchanged ==
    UNCHANGED <<history, overflow_checks, hours_to_look_back, current_time, start_time>>

\* main.rs:115-148: after the loop, filter and go on to the fetch loop
EndPagination(sigs) ==
    /\ all_signatures' = sigs
    /\ filtered_signatures' = FilterSignatures(sigs, start_time, current_time)
    /\ pc' = "fetch"
    /\ UNCHANGED <<before, error>>

\* (mutant) a failed listing call taken for the end of the history
OnListingErrorSwallowed == EndPagination(all_signatures)

\* main.rs:75: `?` returns the Gateway's error to main, which prints it
OnListingError ==
    /\ pc' = "failed"
    /\ error' = "ClientError"
    /\ UNCHANGED <<before, all_signatures, filtered_signatures>>

\* main.rs:65-113: one iteration of the pagination loop
ListSignatures ==
    /\ pc = "paginate"
    /\ \E r \in ListResponses(history, before) :
        /\ listing' = IF r.ok THEN Listed(listing, before, r.page)
                      ELSE ListFailed(listing, before)
        /\ IF ~r.ok
           THEN /\ OnListingError
                /\ pacing' = Request(pacing, "list")
           ELSE IF r.page = <<>>
           THEN \* main.rs:77-79
                /\ EndPagination(all_signatures)
                /\ pacing' = Request(pacing, "list")
           ELSE IF OldestBeforeStart(r.page, start_time)
           THEN \* main.rs:87-100
                /\ EndPagination(all_signatures \o BoundaryPage(r.page, start_time))
                /\ pacing' = Request(pacing, "list")
           ELSE IF ~r.page[Len(r.page)].valid
           THEN \* main.rs:104-108: `?` on Signature::from_str
                /\ all_signatures' = all_signatures \o r.page
                /\ pc' = "failed"
                /\ error' = "ParseSignatureError"
                /\ pacing' = Request(pacing, "list")
                /\ UNCHANGED <<before, filtered_signatures>>
           ELSE \* main.rs:104-112
                /\ all_signatures' = all_signatures \o r.page
                /\ before' = NextCursor(r.page)
                /\ pacing' = Sleep(Request(pacing, "list"), SignatureDelayMs)
                /\ UNCHANGED <<pc, error, filtered_signatures>>
    /\ FetcherUnchanged
    /\ ReportUnchanged
    /\ InputsUnchanged

----------------------------------------------------------------------------
(* Transaction Fetcher: main.rs:134-241 *)

\* main.rs:176-191: the record of a fetched transaction
TransactionData(sig_info, r) ==
    [signature |-> sig_info.signature,
     timestamp |-> FromTimestamp(IF IsSome(r.block_time) THEN Unwrap(r.block_time) ELSE 0),
     success |-> r.status,
     fee_lamports |-> r.fee]

\* the fetch log's entry: get_transaction asked for sig_info's signature (main.rs:159)
\* and answered r
Answered(sig_info, r) == [signature |-> sig_info.signature, response |-> r]

\* (mutant) every Ok(tx) taken to carry meta
HasMetaAnyOk(r) == r.ok

\* main.rs:161: Ok(tx) with tx.transaction.meta present
HasMeta(r) == r.ok /\ r.meta

\* main.rs:143-146, 150, 155: the fetch at position i is the last of its chunk
EndsChunk(i, n) == i % batch_size = 0 \/ i = n

\* (mutant) the batch's sleep left out
AfterFetchNoBatchDelay(p, i, n) == Sleep(p, TransactionDelayMs)

\* main.rs:220, 240: the sleeps after the fetch at position i
AfterFetch(p, i, n) ==
    IF EndsChunk(i, n)
    THEN Sleep(Sleep(p, TransactionDelayMs), BatchDelayMs)
    ELSE Sleep(p, TransactionDelayMs)

\* (mutant) a transaction whose status is an error is not counted as failed
AccumulateNoFailedCount(sig_info, r) ==
    /\ total_fees' = WrappingAdd(total_fees, r.fee)
    /\ processed_tx_count' = processed_tx_count + 1
    /\ successful_tx_count' = successful_tx_count + (IF r.status THEN 1 ELSE 0)
    /\ failed_tx_count' = failed_tx_count
    /\ transactions_data' = Append(transactions_data, TransactionData(sig_info, r))

\* main.rs:161-191: the accumulators after a fetched transaction with meta
Accumulate(sig_info, r) ==
    /\ total_fees' = WrappingAdd(total_fees, r.fee)
    /\ processed_tx_count' = processed_tx_count + 1
    /\ successful_tx_count' = successful_tx_count + (IF r.status THEN 1 ELSE 0)
    /\ failed_tx_count' = failed_tx_count + (IF r.status THEN 0 ELSE 1)
    /\ transactions_data' = Append(transactions_data, TransactionData(sig_info, r))

AccumulatorsUnchanged ==
    UNCHANGED <<total_fees, processed_tx_count, successful_tx_count,
                failed_tx_count, transactions_data>>

\* main.rs:155-221: one iteration of the inner loop (with the batch's sleep when
\* the chunk ends), the Gateway answering from Rs
FetchTransaction(Rs) ==
    /\ pc = "fetch"
    /\ next_sig <= Len(filtered_signatures)
    /\ LET sig_info == filtered_signatures[next_sig]
           n == Len(filtered_signatures)
       IN  IF ~sig_info.valid
           THEN \* main.rs:156: `?` on Signature::from_str
                /\ pc' = "failed"
                /\ error' = "ParseSignatureError"
                /\ AccumulatorsUnchanged
                /\ UNCHANGED <<next_sig, responses, pacing>>
           ELSE \E r \in Rs :
                /\ responses' = Append(responses, Answered(sig_info, r))
                /\ IF HasMeta(r) /\ Overflows(total_fees, r.fee) /\ overflow_checks
                   THEN \* main.rs:163: "attempt to add with overflow"
                        /\ pc' = "panicked"
                        /\ AccumulatorsUnchanged
                        /\ pacing' = Request(pacing, "fetch")
                        /\ UNCHANGED <<next_sig, error>>
                   ELSE /\ IF HasMeta(r)
                           THEN Accumulate(sig_info, r)
                           ELSE AccumulatorsUnchanged
                        /\ next_sig' = next_sig + 1
                        /\ pacing' = AfterFetch(Request(pacing, "fetch"), next_sig, n)
                        /\ UNCHANGED <<pc, error>>
    /\ UNCHANGED <<before, all_signatures, filtered_signatures, listing>>
    /\ ReportUnchanged
    /\ InputsUnchanged

----------------------------------------------------------------------------
(* Aggregator: main.rs:243-290 *)

\* the position after the last record whose timestamp is not after ts
RECURSIVE InsertAt(_, _, _)
InsertAt(sorted, ts, i) ==
    IF i > Len(sorted) \/ DtLt(ts, sorted[i].timestamp) THEN i
    ELSE InsertAt(sorted, ts, i + 1)

\* main.rs:276: sort_by timestamp, stable
RECURSIVE SortByTimestamp(_)
SortByTimestamp(txs) ==
    IF txs = <<>> THEN <<>>
    ELSE LET n == Len(txs)
             sorted == SortByTimestamp(SubSeq(txs, 1, n - 1))
             i == InsertAt(sorted, txs[n].timestamp, 1)
         IN  SubSeq(sorted, 1, i - 1) \o <<txs[n]>> \o SubSeq(sorted, i, Len(sorted))

\* main.rs:245-249: total_fees as f64 / processed_tx_count as f64, or 0.0
AverageFee(total, count) ==
    IF count > 0 THEN [num |-> total, den |-> count]
    ELSE [num |-> U64Zero, den |-> 1]

\* main.rs:278-290
FeeAnalysis(count, ok_count, failed_count, total, txs) ==
    [total_transactions |-> count,
     successful_transactions |-> ok_count,
     failed_transactions |-> failed_count,
     total_fees_lamports |-> total,
     total_fees_sol |-> [num |-> total, den |-> 1000000000],
     average_fee_per_tx |-> AverageFee(total, count),
     time_period |-> [from |-> start_time, to |-> current_time],
     transactions |-> txs]

\* main.rs:243-290: after the last chunk, sort and return Ok(FeeAnalysis)
Summarize ==
    /\ pc = "fetch"
    /\ next_sig > Len(filtered_signatures)
    /\ transactions_data' = SortByTimestamp(transactions_data)
    /\ analysis' = Some(FeeAnalysis(processed_tx_count, successful_tx_count,
                                    failed_tx_count, total_fees,
                                    transactions_data'))
    /\ pc' = "returned"
    /\ UNCHANGED <<error, before, all_signatures, filtered_signatures, next_sig,
                   total_fees, processed_tx_count, successful_tx_count,
                   failed_tx_count, csv_file, time_series, listing, responses, pacing>>
    /\ InputsUnchanged

----------------------------------------------------------------------------
(* Report Sink: main.rs:320-364, 373-529 *)

\* main.rs:386-401: one row per transaction (the timestamp to the second)
CsvRows(a) ==
    [i \in 1..Len(a.transactions) |->
        <<a.transactions[i].timestamp.secs, a.transactions[i].signature,
          a.transactions[i].success, a.transactions[i].fee_lamports>>]

\* (mutant) a record at the very start of the hour is left out
HourlyBucketExclusiveStart(hour, txs) ==
    LET next_hour == AddHours(hour, 1)
        in_hour == {i \in 1..Len(txs) :
                      DtLt(hour, txs[i].timestamp) /\ DtLt(txs[i].timestamp, next_hour)}
    IN  [hour |-> hour,
         successful |-> Cardinality({i \in in_hour : txs[i].success}),
         total |-> Cardinality(in_hour)]

\* main.rs:477-486: the bucket of the hour starting at hour
HourlyBucket(hour, txs) ==
    LET next_hour == AddHours(hour, 1)
        in_hour == {i \in 1..Len(txs) :
                      DtGe(txs[i].timestamp, hour) /\ DtLt(txs[i].timestamp, next_hour)}
    IN  [hour |-> hour,
         successful |-> Cardinality({i \in in_hour : txs[i].success}),
         total |-> Cardinality(in_hour)]

\* main.rs:473-489: while current_hour <= end_time
RECURSIVE HourlyFrom(_, _, _)
HourlyFrom(current_hour, end_time, txs) ==
    IF DtLe(current_hour, end_time)
    THEN <<HourlyBucket(current_hour, txs)>>
         \o HourlyFrom(AddHours(current_hour, 1), end_time, txs)
    ELSE <<>>

\* (mutant) the hour after `to`'s hour is not added
EndTimeNoLastHour(to) == TruncateToHour(to)

\* main.rs:462-471: the last hour of the series
EndTime(to) == AddHours(TruncateToHour(to), 1)

\* main.rs:449-490: hourly_data
HourlyData(a) ==
    IF a.transactions # <<>>
    THEN HourlyFrom(TruncateToHour(a.transactions[1].timestamp),
                    EndTime(a.time_period.to), a.transactions)
    ELSE <<>>

\* main.rs:321-364: main's Ok arm; an output whose File::create fails is
\* reported and skipped.  Files holds the pairs <<csv created, series created>>
\* the file system may give
Report(Files) ==
    /\ pc = "returned"
    /\ \E created \in Files :
        /\ csv_file' = IF created[1] THEN Some(CsvRows(Unwrap(analysis))) ELSE None
        /\ time_series' = IF created[2] THEN Some(HourlyData(Unwrap(analysis))) ELSE None
    /\ pc' = "reported"
    /\ UNCHANGED <<error, before, all_signatures, filtered_signatures, analysis,
                   listing, pacing>>
    /\ FetcherUnchanged
    /\ InputsUnchanged

----------------------------------------------------------------------------
(* Specifications *)

\* main.rs:54-63, 135-139: the state when the pagination loop is entered
Start(h, checks, hours, now) ==
    /\ history = h
    /\ overflow_checks = checks
    /\ hours_to_look_back = hours
    /\ current_time = now
    /\ start_time = AddHours(now, -hours)
    /\ pc = "paginate"
    /\ error = ""
    /\ before = None
    /\ all_signatures = <<>>
    /\ filtered_signatures = <<>>
    /\ next_sig = 1
    /\ total_fees = U64Zero
    /\ processed_tx_count = 0
    /\ successful_tx_count = 0
    /\ failed_tx_count = 0
    /\ transactions_data = <<>>
    /\ analysis = None
    /\ csv_file = None
    /\ time_series = None
    /\ listing = [calls |-> 0, fetched |-> <<>>, cursor |-> None, page |-> <<>>,
                  failed |-> FALSE, prev_last |-> None]
    /\ responses = <<>>
    /\ pacing = NoPacing

\* the file system: both outputs created, or either File::create failing
FilesCreated == {<<TRUE, TRUE>>}
AnyFiles == BOOLEAN \X BOOLEAN

\* Collector scenarios: every history of at most MaxHist entries (any block
\* times, at most one signature string that does not parse) and every window;
\* the fetches kept few
Init ==
    \E n \in 0..MaxHist :
      \E f \in [1..n -> ListedBlockTimes], bad \in 0..n :
        \E hours \in Lookbacks, now \in Nows :
          Start([i \in 1..n |-> SignatureRef(i, f[i], i # bad)], FALSE, hours, now)

Next ==
    \/ ListSignatures
    \/ FetchTransaction(BatchResponses)
    \/ Summarize
    \/ Report(FilesCreated)

Spec == Init /\ [][Next]_vars

\* the run is one thread: an iteration of the pagination loop that can run, runs
LiveSpec == Spec /\ WF_vars(ListSignatures)

\* Fee scenarios: every entry in a one-hour window, every fee and status, both
\* build profiles
InitFees ==
    \E n \in 0..FeeHist :
      \E checks \in BOOLEAN, now \in Nows :
        Start([i \in 1..n |-> SignatureRef(i, Some(NowSecs), TRUE)], checks, 1, now)

NextFees ==
    \/ ListSignatures
    \/ FetchTransaction(TxResponses)
    \/ Summarize
    \/ Report(AnyFiles)

FeeSpec == InitFees /\ [][NextFees]_vars

\* Batch scenarios: histories long enough for more than one batch, every entry
\* in a one-hour window, at most one signature string that does not parse
InitBatch ==
    \E n \in (BatchHist - 1)..BatchHist :
      \E bad \in 0..n :
        Start([i \in 1..n |-> SignatureRef(i, Some(NowSecs), i # bad)], FALSE, 1,
              [secs |-> NowSecs, nanos |-> 0])

NextBatch ==
    \/ ListSignatures
    \/ FetchTransaction(BatchResponses)
    \/ Summarize
    \/ Report(FilesCreated)

BatchSpec == InitBatch /\ [][NextBatch]_vars

\* Time-series scenarios: every entry listed at `to`, every window, the fetched
\* block times anywhere
InitSeries ==
    \E n \in 0..SeriesHist :
      \E hours \in Lookbacks, now \in Nows :
        Start([i \in 1..n |-> SignatureRef(i, Some(NowSecs), TRUE)], FALSE, hours, now)

NextSeries ==
    \/ ListSignatures
    \/ FetchTransaction(SeriesResponses)
    \/ Summarize
    \/ Report(AnyFiles)

SeriesSpec == InitSeries /\ [][NextSeries]_vars

----------------------------------------------------------------------------
(* Claims about the Signature Collector *)

\* calculate_fees has left the pagination loop and built filtered_signatures
HandedOver == pc \in {"fetch", "returned", "reported", "panicked"}

\* the entry has a timestamp t with from <= t <= to
C1_HasTimestampInWindow(e) ==
    /\ e.block_time # None
    /\ DtLe(start_time, FromTimestamp(e.block_time[1]))
    /\ DtLe(FromTimestamp(e.block_time[1]), current_time)

\* the entry has a timestamp before `from`
C1_Older(e) ==
    e.block_time # None /\ DtLt(FromTimestamp(e.block_time[1]), start_time)

\* C1: the signatures handed to the Transaction Fetcher are exactly the entries
\* of the fetched pages with a timestamp in [from, to], each once and in the
\* order fetched, wherever they sit in their page.
C1_FilteredIsWindowOfFetched ==
    HandedOver =>
        filtered_signatures = SelectSeq(listing.fetched, C1_HasTimestampInWindow)

\* a boundary page <<older, in window, older>>: what is kept is no prefix of it
C1_Witness_ScatteredBoundaryPage ==
    /\ HandedOver
    /\ Len(listing.page) = 3
    /\ C1_Older(listing.page[1])
    /\ C1_HasTimestampInWindow(listing.page[2])
    /\ C1_Older(listing.page[3])
    /\ \E i \in 1..Len(filtered_signatures) : filtered_signatures[i] = listing.page[2]

\* C3: a failed listing call aborts the run: calculate_fees returns the error,
\* no FeeAnalysis exists, no detail fetch was or is issued, and neither output
\* is written, whatever had been accumulated.
C3_ListingFailureAborts ==
    listing.failed =>
        /\ pc = "failed"
        /\ error = "ClientError"
        /\ analysis = None
        /\ responses = <<>>
        /\ pacing.last = "list"
        /\ csv_file = None
        /\ time_series = None

\* the second listing call failed after a page with an in-window entry was kept
C3_Witness_FailureAfterPages ==
    /\ listing.failed
    /\ listing.calls >= 2
    /\ \E i \in 1..Len(all_signatures) : C1_HasTimestampInWindow(all_signatures[i])

\* every entry of the history with a timestamp has it at or before `to`
C8_HistoryNotAfterNow ==
    \A i \in 1..Len(history) :
        history[i].block_time # None =>
            DtLe(FromTimestamp(history[i].block_time[1]), current_time)

\* C8: with a zero or negative lookback, and a history no later than the run's
\* start, the run does not crash and yields nothing: no signature retained, no
\* detail fetch, all counts, the fee total and the average 0, no bucket.
C8_NonPositiveLookbackYieldsNothing ==
    (hours_to_look_back <= 0 /\ C8_HistoryNotAfterNow) =>
        /\ pc # "panicked"
        /\ filtered_signatures = <<>>
        /\ responses = <<>>
        /\ analysis # None =>
            /\ analysis[1].total_transactions = 0
            /\ analysis[1].successful_transactions = 0
            /\ analysis[1].failed_transactions = 0
            /\ analysis[1].total_fees_lamports = U64Zero
            /\ analysis[1].average_fee_per_tx.num = U64Zero
            /\ analysis[1].transactions = <<>>
        /\ time_series # None => time_series[1] = <<>>

\* the page ends the pagination loop: it is empty, or its last entry has a
\* timestamp strictly before `from`
C9_Stops(page) == page = <<>> \/ C1_Older(page[Len(page)])

C9_Cursors ==
    \* no listing call after a page that stops the loop
    /\ (pc = "paginate" /\ listing.calls > 0) => ~C9_Stops(listing.page)
    \* the loop ends only at such a page (or with an error)
    /\ HandedOver => (listing.calls > 0 /\ C9_Stops(listing.page))
    \* each page before the last is not empty, so the calls are bounded
    /\ listing.calls <= Len(history) + 1
    \* the first call has no cursor, every later one the last entry of the page before
    /\ listing.calls = 1 => listing.cursor = None
    /\ listing.calls >= 2 =>
        (listing.prev_last # None /\ listing.cursor = listing.prev_last)

\* C9: against a Gateway that honours the exclusive cursor over a finite
\* history the pagination loop ends; it ends at the first page that is empty
\* or whose last entry is older than `from`, and until then each call's cursor
\* is the last entry of the page before.
C9_PaginationStopsAtFirstBoundary ==
    /\ []C9_Cursors
    /\ <>(pc # "paginate")

\* the loop stopped at a boundary page of a later call, with history left
C9_Witness_StoppedBeforeHistoryEnd ==
    /\ pc = "fetch"
    /\ listing.calls >= 2
    /\ listing.page # <<>>
    /\ C1_Older(listing.page[Len(listing.page)])
    /\ Len(listing.fetched) < Len(history)

----------------------------------------------------------------------------
(* Claims about the Transaction Fetcher *)

\* the number of records that carry the signature
C2_Records(sig) ==
    Cardinality({j \in 1..Len(transactions_data) : transactions_data[j].signature = sig})

\* the fetches whose answer has been processed
C2_Processed ==
    1..(IF pc = "panicked" THEN Len(responses) - 1 ELSE Len(responses))

\* C2 as stated: every signature is attempted once in input order, and the
\* records are exactly one per signature whose detail fetch succeeded.
C2_OneRecordPerSuccessfulFetch ==
    pc \in {"returned", "reported"} =>
        /\ Len(responses) = Len(filtered_signatures)
        /\ \A i \in 1..Len(responses) :
            /\ responses[i].signature = filtered_signatures[i].signature
            /\ C2_Records(responses[i].signature) =
                   (IF responses[i].response.ok THEN 1 ELSE 0)

\* the answer gives a record: Ok with the transaction's meta
C2_Usable(a) == a.response.ok /\ a.response.meta

C2_RecordsFollowAnswers ==
    \* attempted in input order, each at most once
    /\ Len(responses) <= Len(filtered_signatures)
    /\ \A i \in 1..Len(responses) :
        responses[i].signature = filtered_signatures[i].signature
    /\ pc = "fetch" => Len(responses) = next_sig - 1
    \* all of them once the run returns
    /\ pc \in {"returned", "reported"} => Len(responses) = Len(filtered_signatures)
    \* one record per usable answer, none for the others
    /\ \A i \in C2_Processed :
        C2_Records(responses[i].signature) = (IF C2_Usable(responses[i]) THEN 1 ELSE 0)
    /\ Len(transactions_data) = Cardinality({i \in C2_Processed : C2_Usable(responses[i])})

\* a fetch that gives no record changes no accumulator and the loop goes on
C2_SkipChangesNothing ==
    (/\ Len(responses') = Len(responses) + 1
     /\ ~C2_Usable(responses'[Len(responses')]))
    => /\ UNCHANGED <<total_fees, processed_tx_count, successful_tx_count,
                      failed_tx_count, transactions_data>>
       /\ pc' = "fetch"
       /\ next_sig' = next_sig + 1

\* C2 (amended): signatures are attempted in input order, each once, all of
\* them when the run returns; the records are exactly one per signature whose
\* fetch returned Ok with meta; a failed or meta-less fetch changes nothing and
\* the next signature is fetched.
C2_OneRecordPerUsableFetch ==
    /\ []C2_RecordsFollowAnswers
    /\ [][C2_SkipChangesNothing]_vars

\* 7 signatures, the third fetch fails, the others give a record: 6 records
C2_Witness_SevenWithOneFailure ==
    /\ pc = "returned"
    /\ Len(filtered_signatures) = 7
    /\ Len(responses) = 7
    /\ ~responses[3].response.ok
    /\ \A i \in (1..7) \ {3} : C2_Usable(responses[i])
    /\ Len(transactions_data) = 6
    /\ processed_tx_count = 6

\* the latest fetch was the first of a batch after the first batch
C10_StartsLaterBatch ==
    /\ pacing.last = "fetch"
    /\ Len(responses) > 1
    /\ (Len(responses) - 1) % 5 = 0

\* the latest fetch was the last of its batch and its answer has been processed
C10_EndedBatch ==
    /\ pacing.last = "fetch"
    /\ pc \in {"fetch", "returned", "reported"}
    /\ Len(responses) % 5 = 0 \/ Len(responses) = Len(filtered_signatures)

C10_FetchDelays ==
    \* every processed detail fetch is followed by the 100 ms delay
    /\ (pacing.last = "fetch" /\ pc \in {"fetch", "returned", "reported"})
        => pacing.since >= 100
    \* the 500 ms delay after every batch, before the next batch's first fetch
    /\ C10_EndedBatch => pacing.since >= 100 + 500
    /\ C10_StartsLaterBatch => pacing.gap >= 100 + 500

\* C10 as stated: a pacing delay between any two consecutive Gateway requests,
\* 100 ms after every detail fetch, 500 ms after every batch.
C10_EveryRequestPaced ==
    /\ pacing.prev # "" => pacing.gap >= 100
    /\ C10_FetchDelays

\* C10 (amended): as stated, except that the first detail fetch follows the
\* last listing call with no delay at all.
C10_PacedExceptAtHandOver ==
    /\ (pacing.prev # "" /\ ~(pacing.prev = "list" /\ pacing.last = "fetch"))
        => pacing.gap >= 100
    /\ (pacing.prev = "list" /\ pacing.last = "fetch") => pacing.gap = 0
    /\ C10_FetchDelays

\* the sixth fetch, the first of the second batch, came 600 ms after the fifth
C10_Witness_SecondBatchStarted ==
    /\ pacing.last = "fetch"
    /\ pacing.prev = "fetch"
    /\ Len(responses) = 6
    /\ pacing.gap = 600

----------------------------------------------------------------------------
(* Claims about the Aggregator *)

\* C4: in the fetch loop and in the FeeAnalysis, total = successful + failed,
\* and total is the number of records retained.
C4_CountsAddUp ==
    /\ processed_tx_count = successful_tx_count + failed_tx_count
    /\ processed_tx_count = Len(transactions_data)
    /\ analysis # None =>
        /\ analysis[1].total_transactions =
               analysis[1].successful_transactions + analysis[1].failed_transactions
        /\ analysis[1].total_transactions = Len(analysis[1].transactions)

\* a FeeAnalysis of successes and failures, after a fetch that failed
C4_Witness_MixedOutcomes ==
    /\ analysis # None
    /\ analysis[1].successful_transactions > 0
    /\ analysis[1].failed_transactions > 0
    /\ \E i \in 1..Len(responses) : ~responses[i].response.ok

\* the mathematical sum of the records' fees, as five limbs
RECURSIVE C5_ExactSum(_)
C5_ExactSum(txs) ==
    IF txs = <<>> THEN <<0, 0, 0, 0, 0>>
    ELSE LET rest == C5_ExactSum(Tail(txs))
             low == AddLimbs(SubSeq(rest, 1, 4), txs[1].fee_lamports)
         IN  <<low[1], low[2], low[3], low[4], rest[5] + low[5]>>

\* C5: total_fees_lamports is the exact sum of the records' fees; the u64
\* accumulator never reports the sum modulo 2^64.
C5_TotalIsExactSum ==
    analysis # None =>
        analysis[1].total_fees_lamports \o <<0>> = C5_ExactSum(analysis[1].transactions)

C6_Sum(f, n) == LET RECURSIVE S(_)
                    S(i) == IF i = 0 THEN 0 ELSE f[i] + S(i - 1)
                IN  S(n)

C6_TotalInBuckets ==
    C6_Sum([i \in 1..Len(time_series[1]) |-> time_series[1][i].total],
           Len(time_series[1]))

C6_SuccessfulInBuckets ==
    C6_Sum([i \in 1..Len(time_series[1]) |-> time_series[1][i].successful],
           Len(time_series[1]))

\* C6 as stated: the buckets' total_count sums to total_transactions and their
\* successful_count to successful_transactions, for every record set.
C6_BucketsCountEveryRecord ==
    time_series # None =>
        /\ C6_TotalInBuckets = analysis[1].total_transactions
        /\ C6_SuccessfulInBuckets = analysis[1].successful_transactions

\* the end of the last bucket: `to`'s hour plus two hours
C6_SeriesEnd ==
    (current_time.secs \div 3600) * 3600 + 2 * 3600

\* C6 (amended): the sums equal the counts when every record's timestamp is
\* before the end of the last bucket (`to`'s hour plus two hours); epoch-zero
\* records and records in the hour after `to` are counted.
C6_BucketsCountRecordsBeforeSeriesEnd ==
    (/\ time_series # None
     /\ \A i \in 1..Len(analysis[1].transactions) :
            analysis[1].transactions[i].timestamp.secs < C6_SeriesEnd)
    => /\ C6_TotalInBuckets = analysis[1].total_transactions
       /\ C6_SuccessfulInBuckets = analysis[1].successful_transactions

\* a series over an epoch-zero record and a record after `to`, both counted
C6_Witness_EpochAndLateRecord ==
    /\ time_series # None
    /\ \E i, j \in 1..Len(analysis[1].transactions) :
        /\ analysis[1].transactions[i].timestamp.secs = 0
        /\ analysis[1].transactions[j].timestamp.secs > current_time.secs
        /\ analysis[1].transactions[j].timestamp.secs < C6_SeriesEnd
    /\ analysis[1].successful_transactions > 0
    /\ C6_TotalInBuckets = analysis[1].total_transactions
    /\ C6_TotalInBuckets >= 2

\* the hour boundary at or before t
C7_HourOf(t) == (t \div 3600) * 3600

\* C7: the series' hour_start values are exactly the hour boundaries from the
\* earliest record's hour to `to`'s hour plus one hour, inclusive, one hour
\* apart, empty hours included; with no record the series is empty.
C7_SeriesIsEveryHour ==
    time_series # None =>
        LET txs == analysis[1].transactions
            series == time_series[1]
            last == C7_HourOf(analysis[1].time_period.to.secs) + 3600
        IN  IF txs = <<>> THEN series = <<>>
            ELSE LET first == C7_HourOf(txs[1].timestamp.secs)
                 IN  /\ \A j \in 1..Len(txs) : txs[1].timestamp.secs <= txs[j].timestamp.secs
                     /\ Len(series) = (IF first > last THEN 0
                                       ELSE (last - first) \div 3600 + 1)
                     /\ \A i \in 1..Len(series) :
                            series[i].hour = [secs |-> first + (i - 1) * 3600, nanos |-> 0]

\* a series from epoch zero to the hour after `to`, with an empty hour inside
C7_Witness_GapFilledSeries ==
    /\ time_series # None
    /\ Len(time_series[1]) >= 3
    /\ time_series[1][1].total > 0
    /\ \E i \in 2..(Len(time_series[1]) - 1) : time_series[1][i].total = 0
    /\ \E i \in 2..Len(time_series[1]) : time_series[1][i].total > 0
    /\ time_series[1][Len(time_series[1])].hour.secs =
           C7_HourOf(current_time.secs) + 3600

====
